---- MODULE Spec2Model ----
(***************************************************************************)
(* A model of the pp-stream HLS proxy: the playlist endpoint               *)
(* (src/src/routes/m3u8-proxy.ts) and the three variants of the segment    *)
(* endpoint (src/src/routes/ts-proxy.ts, src/unnamed/part_000,             *)
(* src/unnamed/part_001).                                                  *)
(*                                                                         *)
(* JavaScript strings are TLA+ strings; a character is a string of length  *)
(* one, taken with SubSeq.  The platform functions the handlers call (the  *)
(* WHATWG URL parser, encodeURIComponent, URLSearchParams, JSON.parse and  *)
(* JSON.stringify, String.prototype.replace) are modelled by what they do  *)
(* on printable ASCII; the parts of them that are left out are named where *)
(* they are defined, and no input of the model reaches them.               *)
(***************************************************************************)
EXTENDS Integers, Sequences, FiniteSets, TLC

(***************************************************************************)
(* Characters and strings                                                  *)
(***************************************************************************)

\* Printable ASCII in code order.  The grave accent (code 96) cannot be written in
\* a TLA+ string, so the table is in two parts: AsciiLow holds the codes 32..95
\* and AsciiHigh the codes 97..126.
AsciiLow == " !\"#$%&'()*+,-./0123456789:;<=>?@ABCDEFGHIJKLMNOPQRSTUVWXYZ[\\]^_"

AsciiHigh == "abcdefghijklmnopqrstuvwxyz{|}~"

UpperChars == "ABCDEFGHIJKLMNOPQRSTUVWXYZ"
LowerChars == "abcdefghijklmnopqrstuvwxyz"
HexChars == "0123456789ABCDEF"

CharsOf(s) == {SubSeq(s, i, i) : i \in 1..Len(s)}

UpperSet == CharsOf(UpperChars)
AlphaSet == UpperSet \cup CharsOf(LowerChars)
DigitSet == CharsOf("0123456789")
\* ECMAScript WhiteSpace and LineTerminator characters that occur in ASCII text.
WhiteSpaceSet == {" ", "\t", "\r", "\n", "\f"}

At(s, i) == SubSeq(s, i, i)

From(s, i) == SubSeq(s, i, Len(s))

\* String.prototype.startsWith
startsWith(s, p) == Len(p) <= Len(s) /\ SubSeq(s, 1, Len(p)) = p

\* String.prototype.indexOf, 1-based; 0 when t does not occur in s.
Least(S) == CHOOSE i \in S : \A j \in S : i <= j

indexOf(s, t) ==
  LET hits == {i \in 1..(Len(s) - Len(t) + 1) : SubSeq(s, i, i + Len(t) - 1) = t}
  IN IF hits = {} THEN 0 ELSE Least(hits)

\* String.prototype.includes
includes(s, t) == Len(t) = 0 \/ indexOf(s, t) > 0

\* String.prototype.trim
RECURSIVE trimStart(_)
trimStart(s) ==
  IF Len(s) > 0 /\ At(s, 1) \in WhiteSpaceSet THEN trimStart(From(s, 2)) ELSE s

RECURSIVE trimEnd(_)
trimEnd(s) ==
  IF Len(s) > 0 /\ At(s, Len(s)) \in WhiteSpaceSet
  THEN trimEnd(SubSeq(s, 1, Len(s) - 1))
  ELSE s

trim(s) == trimEnd(trimStart(s))

\* String.prototype.split(sep) for a one-character separator: a sequence of strings.
RECURSIVE split(_, _)
split(s, sep) ==
  LET i == indexOf(s, sep)
  IN IF i = 0 THEN <<s>> ELSE <<SubSeq(s, 1, i - 1)>> \o split(From(s, i + 1), sep)

\* Array.prototype.join(sep)
RECURSIVE join(_, _)
join(ls, sep) ==
  IF Len(ls) = 0 THEN ""
  ELSE IF Len(ls) = 1 THEN ls[1]
  ELSE ls[1] \o sep \o join(Tail(ls), sep)

\* The code of a character and the character of a code: printable ASCII, and
\* the control characters tab, line feed, form feed and carriage return.
CharCode(c) ==
  LET low == indexOf(AsciiLow, c)
  IN IF c \in {"\t", "\n", "\f", "\r"}
     THEN (CASE c = "\t" -> 9 [] c = "\n" -> 10 [] c = "\f" -> 12 [] OTHER -> 13)
     ELSE IF low > 0 THEN 31 + low ELSE 96 + indexOf(AsciiHigh, c)

CharOfCode(n) ==
  IF n < 32
  THEN (CASE n = 9 -> "\t" [] n = 10 -> "\n" [] n = 12 -> "\f" [] OTHER -> "\r")
  ELSE IF n <= 95 THEN At(AsciiLow, n - 31) ELSE At(AsciiHigh, n - 96)

toLowerChar(c) ==
  IF c \in UpperSet THEN At(LowerChars, indexOf(UpperChars, c)) ELSE c

\* The character-wise operators below halve the string instead of peeling one
\* character at a time; the result is the same left-to-right concatenation.
Half(s) == Len(s) \div 2

RECURSIVE toLowerCase(_)
toLowerCase(s) ==
  IF Len(s) = 0 THEN ""
  ELSE IF Len(s) = 1 THEN toLowerChar(s)
  ELSE toLowerCase(SubSeq(s, 1, Half(s))) \o toLowerCase(From(s, Half(s) + 1))

HexByte(n) == "%" \o At(HexChars, (n \div 16) + 1) \o At(HexChars, (n % 16) + 1)

(***************************************************************************)
(* The URL parser (new URL(url, base), URL.prototype.toString)             *)
(*                                                                         *)
(* The WHATWG basic URL parser for the special schemes http and https.     *)
(* Left out: other schemes, credentials (user:pass@), IPv4 and IPv6        *)
(* hosts, percent-escapes and non-ASCII characters in hosts, control       *)
(* characters inside a URL and the grave accent.  Of domain-to-ASCII on a  *)
(* label that starts with xn--, the Punycode decoding is modelled in full; *)
(* of the validity of the decoded label, only that it holds a code point   *)
(* that is not ASCII, none above U+10FFFF, no surrogate, and of the code   *)
(* points U+0080..U+00FF only those the IDNA mapping table leaves as they  *)
(* are.  The mapping, normalisation and validity (bidi, joiners) of code   *)
(* points from U+0100 on are left out: such a label is taken as valid.     *)
(***************************************************************************)

Failure ==
  [ok |-> FALSE, scheme |-> "", host |-> "", port |-> "", path |-> <<>>,
   hasQuery |-> FALSE, query |-> "", hasFragment |-> FALSE, fragment |-> ""]

\* An optional string argument (undefined when absent).
None == [present |-> FALSE, value |-> ""]
Some(s) == [present |-> TRUE, value |-> s]

C0OrSpaceSet == {" ", "\t", "\r", "\n", "\f"}
SlashSet == {"/", "\\"}
FragmentEncodeSet == {" ", "\"", "<", ">"}

RECURSIVE stripLeading(_)
stripLeading(s) ==
  IF Len(s) > 0 /\ At(s, 1) \in C0OrSpaceSet THEN stripLeading(From(s, 2)) ELSE s

RECURSIVE stripTrailing(_)
stripTrailing(s) ==
  IF Len(s) > 0 /\ At(s, Len(s)) \in C0OrSpaceSet
  THEN stripTrailing(SubSeq(s, 1, Len(s) - 1))
  ELSE s

RECURSIVE removeTabNewline(_)
removeTabNewline(s) ==
  IF Len(s) = 0 THEN ""
  ELSE IF Len(s) = 1 THEN (IF s \in {"\t", "\r", "\n"} THEN "" ELSE s)
  ELSE removeTabNewline(SubSeq(s, 1, Half(s))) \o removeTabNewline(From(s, Half(s) + 1))

\* Steps 1-3 of the basic URL parser.
cleanInput(s) == removeTabNewline(stripTrailing(stripLeading(s)))

\* The position of the ":" that ends a scheme at the start of s, or 0.
schemeEnd(s) ==
  IF Len(s) > 0 /\ At(s, 1) \in AlphaSet
  THEN LET i == indexOf(s, ":")
       IN IF /\ i > 0
             /\ \A j \in 2..(i - 1) : At(s, j) \in AlphaSet \cup DigitSet \cup {"+", "-", "."}
          THEN i ELSE 0
  ELSE 0

\* UTF-8 percent-encode the characters of s that are in the set enc.
RECURSIVE percentEncode(_, _)
percentEncode(s, enc) ==
  IF Len(s) = 0 THEN ""
  ELSE IF Len(s) = 1 THEN (IF s \in enc THEN HexByte(CharCode(s)) ELSE s)
  ELSE percentEncode(SubSeq(s, 1, Half(s)), enc) \o percentEncode(From(s, Half(s) + 1), enc)

RECURSIVE skipSlashes(_)
skipSlashes(s) ==
  IF Len(s) > 0 /\ At(s, 1) \in SlashSet THEN skipSlashes(From(s, 2)) ELSE s

\* The first position of s that holds a character of the set cs, or Len(s) + 1.
firstOf(s, cs) ==
  LET hits == {i \in 1..Len(s) : At(s, i) \in cs}
  IN IF hits = {} THEN Len(s) + 1 ELSE Least(hits)

\* The value of the digits s as the port state accumulates it, digit by
\* digit; 65536 stands for every value above 65535 (the state fails there).
RECURSIVE parseDigits(_)
parseDigits(s) ==
  IF Len(s) = 0 THEN 0
  ELSE LET port == parseDigits(SubSeq(s, 1, Len(s) - 1))
           next == 10 * port + (CharCode(At(s, Len(s))) - 48)
       IN IF port > 65535 \/ next > 65535 THEN 65536 ELSE next

shorten(path) == IF Len(path) = 0 THEN path ELSE SubSeq(path, 1, Len(path) - 1)

RECURSIVE backslashToSlash(_)
backslashToSlash(s) ==
  IF Len(s) = 0 THEN ""
  ELSE IF Len(s) = 1 THEN (IF s = "\\" THEN "/" ELSE s)
  ELSE backslashToSlash(SubSeq(s, 1, Half(s))) \o backslashToSlash(From(s, Half(s) + 1))

\* The path state, run over the segments segs[k..] with the path built so far.
RECURSIVE pathState(_, _, _)
pathState(path, segs, k) ==
  IF k > Len(segs) THEN path
  ELSE LET seg == segs[k]
           last == (k = Len(segs))
           \* a double-dot segment, a single-dot segment, any other segment
           next == IF toLowerCase(seg) \in {"..", ".%2e", "%2e.", "%2e%2e"}
                   THEN (IF last THEN Append(shorten(path), "") ELSE shorten(path))
                   ELSE IF toLowerCase(seg) \in {".", "%2e"}
                   THEN (IF last THEN Append(path, "") ELSE path)
                   ELSE Append(path, percentEncode(seg, ({" ", "\"", "<", ">", "{", "}"})))
       IN pathState(next, segs, k + 1)

\* Path, query and fragment of the text t that follows the authority or that is a
\* relative reference.  url gives scheme, host and port.  With keepPath the
\* path is path0 as it is (a reference that starts at its query); otherwise the
\* path state extends path0 by the segments of t.
parseTail(url, path0, t, keepPath) ==
  LET h == indexOf(t, "#")
      noFrag == IF h = 0 THEN t ELSE SubSeq(t, 1, h - 1)
      q == indexOf(noFrag, "?")
      pathText == IF q = 0 THEN noFrag ELSE SubSeq(noFrag, 1, q - 1)
  IN [ok |-> TRUE, scheme |-> url.scheme, host |-> url.host, port |-> url.port,
      path |-> IF keepPath THEN path0
               ELSE pathState(path0, split(backslashToSlash(pathText), "/"), 1),
      hasQuery |-> q > 0,
      query |-> IF q = 0 THEN ""
                ELSE percentEncode(From(noFrag, q + 1), {" ", "\"", "<", ">", "'"}),
      hasFragment |-> h > 0,
      fragment |-> IF h = 0 THEN "" ELSE percentEncode(From(t, h + 1), FragmentEncodeSet)]

\* The port state: digits only, of a value of at most 65535.
portOk(portText) ==
  /\ \A i \in 1..Len(portText) : At(portText, i) \in DigitSet
  /\ parseDigits(portText) <= 65535

\* The port as the URL keeps it: none ("") when it is the scheme's default.
portOf(scheme, portText) ==
  IF portText = "" \/ ToString(parseDigits(portText)) = (IF scheme = "https" THEN "443" ELSE "80")
  THEN ""
  ELSE ToString(parseDigits(portText))

\* Punycode (RFC 3492) of domain-to-ASCII, on 32-bit integers: the value of a
\* digit (-1: not a digit), the bias adaptation, and the decoder.
MaxInt32 == 2147483647

punycodeDigit(c) ==
  IF c \in CharsOf(LowerChars) THEN CharCode(c) - 97
  ELSE IF c \in DigitSet THEN CharCode(c) - 22
  ELSE -1

RECURSIVE adaptLoop(_, _)
adaptLoop(delta, k) ==
  IF delta > 455 THEN adaptLoop(delta \div 35, k + 36)
  ELSE k + ((36 * delta) \div (delta + 38))

adapt(delta, numPoints, firstTime) ==
  LET d == IF firstTime THEN delta \div 700 ELSE delta \div 2
  IN adaptLoop(d + (d \div numPoints), 0)

\* One generalized variable-length integer, read from position pos of input:
\* [ok, i, pos] with the new i and the position after it.
RECURSIVE punycodeInteger(_, _, _, _, _, _)
punycodeInteger(input, pos, i, w, k, bias) ==
  IF pos > Len(input) THEN [ok |-> FALSE, i |-> 0, pos |-> pos]
  ELSE LET digit == punycodeDigit(At(input, pos))
           t == IF k <= bias THEN 1 ELSE IF k >= bias + 26 THEN 26 ELSE k - bias
       IN IF digit < 0 \/ digit > (MaxInt32 - i) \div w
          THEN [ok |-> FALSE, i |-> 0, pos |-> pos]
          ELSE IF digit < t THEN [ok |-> TRUE, i |-> i + digit * w, pos |-> pos + 1]
          ELSE IF w > MaxInt32 \div (36 - t) THEN [ok |-> FALSE, i |-> 0, pos |-> pos]
          ELSE punycodeInteger(input, pos + 1, i + digit * w, w * (36 - t), k + 36, bias)

\* The insertions of the decoder, from position pos of input on; out is the
\* sequence of code points decoded so far.
RECURSIVE punycodeInsert(_, _, _, _, _, _)
punycodeInsert(input, pos, n, i, bias, out) ==
  IF pos > Len(input) THEN [ok |-> TRUE, out |-> out]
  ELSE LET v == punycodeInteger(input, pos, i, 1, 36, bias)
           points == Len(out) + 1
       IN IF ~v.ok \/ v.i \div points > MaxInt32 - n \/ n + (v.i \div points) < 128
          THEN [ok |-> FALSE, out |-> <<>>]
          ELSE punycodeInsert(input, v.pos, n + (v.i \div points), (v.i % points) + 1,
                              adapt(v.i - i, points, i = 0),
                              SubSeq(out, 1, v.i % points)
                                \o <<n + (v.i \div points)>>
                                \o SubSeq(out, (v.i % points) + 1, Len(out)))

\* The position of the last "-" of s, or 0.
lastHyphen(s) ==
  LET hits == {i \in 1..Len(s) : At(s, i) = "-"}
  IN IF hits = {} THEN 0 ELSE CHOOSE i \in hits : \A j \in hits : j <= i

punycodeDecode(input) ==
  punycodeInsert(input, lastHyphen(input) + 1, 128, 0, 72,
                 [j \in 1..(lastHyphen(input) - 1) |-> CharCode(At(input, j))])

\* A label that starts with xn--: its Punycode decodes, to a label that is not
\* empty and holds no code point known to be invalid (a label of ASCII only,
\* such as that of xn--a-, is accepted).
punycodeLabelOk(decoded) ==
  /\ decoded.ok
  /\ Len(decoded.out) > 0
  /\ \A j \in 1..Len(decoded.out) :
        \* the code points of U+0080..U+00FF that the IDNA mapping table maps,
        \* ignores or disallows
        /\ decoded.out[j] \notin
             (128..160) \cup {168, 170, 173, 175} \cup (178..181) \cup (184..186)
             \cup (188..190) \cup (192..214) \cup (216..222)
        /\ decoded.out[j] <= 1114111
        /\ decoded.out[j] \notin 55296..57343

\* Domain-to-ASCII on the labels of a host.
labelsOk(labels) ==
  \A j \in 1..Len(labels) :
    ~startsWith(labels[j], "xn--") \/ punycodeLabelOk(punycodeDecode(From(labels[j], 5)))

\* The host parser: a failure on an empty host, a forbidden host code point or
\* a label domain-to-ASCII rejects.
hostOk(hostText) ==
  /\ hostText # ""
  /\ \A i \in 1..Len(hostText) :
       At(hostText, i) \notin
         {" ", "#", "/", ":", "<", ">", "?", "@", "[", "\\", "]", "^", "|", "%"}
  /\ labelsOk(split(toLowerCase(hostText), "."))

\* The authority, host and port states.  t is the input after the slashes that
\* introduce the authority.  In the path start state of a special URL one
\* leading slash is consumed.
parseAuthority(scheme, t) ==
  LET e == firstOf(t, {"/", "\\", "?", "#"})
      auth == SubSeq(t, 1, e - 1)
      c == indexOf(auth, ":")
      hostText == IF c = 0 THEN auth ELSE SubSeq(auth, 1, c - 1)
      portText == IF c = 0 THEN "" ELSE From(auth, c + 1)
      rest == From(t, e)
  IN IF ~hostOk(hostText) \/ ~portOk(portText)
     THEN Failure
     ELSE parseTail([scheme |-> scheme, host |-> toLowerCase(hostText),
                     port |-> portOf(scheme, portText)],
                    <<>>,
                    IF Len(rest) > 0 /\ At(rest, 1) \in SlashSet
                    THEN From(rest, 2) ELSE rest,
                    FALSE)

\* The relative state and the relative slash state: a reference t without an
\* authority, resolved against the parsed base b.
\*   ""      the base without its fragment
\*   "#f"    the base with the fragment f
\*   "?q"    the base's path with the query q
\*   "/p"    the base's host with the path p
\*   "p"     the base's path without its last segment, extended by p
parseRelative(b, t) ==
  IF Len(t) = 0
  THEN [b EXCEPT !.hasFragment = FALSE, !.fragment = ""]
  ELSE IF At(t, 1) = "#"
  THEN [b EXCEPT !.hasFragment = TRUE,
                 !.fragment = percentEncode(From(t, 2), FragmentEncodeSet)]
  ELSE parseTail(b,
                 IF At(t, 1) \in SlashSet THEN <<>>
                 ELSE IF At(t, 1) = "?" THEN b.path
                 ELSE shorten(b.path),
                 IF At(t, 1) \in SlashSet THEN From(t, 2) ELSE t,
                 At(t, 1) = "?")

\* Whether the cleaned input s, whose scheme ends at position i (0: it has
\* none), is parsed in the relative state: it has no scheme, or it has the
\* scheme of the base and no "//" after it; and it does not go on with "//"
\* (the relative slash state then reads an authority).
relativeText(s, i) == IF i = 0 THEN s ELSE From(s, i + 1)

isRelative(s, i, b) ==
  /\ b.ok
  /\ i = 0 \/ (b.scheme = toLowerCase(SubSeq(s, 1, i - 1))
               /\ ~startsWith(From(s, i + 1), "//"))
  /\ ~(Len(relativeText(s, i)) > 1
       /\ At(relativeText(s, i), 1) \in SlashSet
       /\ At(relativeText(s, i), 2) \in SlashSet)

\* The scheme start, scheme and no scheme states on the cleaned input s.
parseFrom(s, i, b) ==
  IF i = 0 /\ ~b.ok THEN Failure
  ELSE IF i > 0 /\ toLowerCase(SubSeq(s, 1, i - 1)) \notin {"http", "https"} THEN Failure
  ELSE IF isRelative(s, i, b) THEN parseRelative(b, relativeText(s, i))
  ELSE parseAuthority(IF i = 0 THEN b.scheme ELSE toLowerCase(SubSeq(s, 1, i - 1)),
                      skipSlashes(relativeText(s, i)))

parseClean(s, b) == parseFrom(s, schemeEnd(s), b)

\* The basic URL parser on input with an optional parsed base (b.ok = FALSE: none).
basicParse(input, b) == parseClean(cleanInput(input), b)

\* new URL(url) with the base already parsed; a failure of the base fails it.
parseWithBase(url, hasBase, b) ==
  IF hasBase /\ ~b.ok THEN Failure ELSE basicParse(url, b)

\* new URL(url, base): a failure stands for the TypeError it throws.
newURL(url, base) ==
  parseWithBase(url, base.present,
                IF base.present THEN basicParse(base.value, Failure) ELSE Failure)

RECURSIVE serializePath(_)
serializePath(path) ==
  IF Len(path) = 0 THEN "" ELSE "/" \o path[1] \o serializePath(Tail(path))

\* URL.prototype.toString (the URL serializer)
toString(u) ==
  u.scheme \o "://" \o u.host \o (IF u.port = "" THEN "" ELSE ":" \o u.port)
  \o serializePath(u.path)
  \o (IF u.hasQuery THEN "?" \o u.query ELSE "")
  \o (IF u.hasFragment THEN "#" \o u.fragment ELSE "")

\* URL.prototype.hostname and URL.prototype.protocol
hostname(u) == u.host

protocol(u) == u.scheme \o ":"

(***************************************************************************)
(* encodeURIComponent, URLSearchParams.get, JSON                           *)
(***************************************************************************)

\* The characters encodeURIComponent leaves as they are.
UnreservedSet == AlphaSet \cup DigitSet \cup {"-", "_", ".", "!", "~", "*", "'", "(", ")"}

encodeChar(c) == IF c \in UnreservedSet THEN c ELSE HexByte(CharCode(c))

RECURSIVE encodeURIComponent(_)
encodeURIComponent(s) ==
  IF Len(s) = 0 THEN ""
  ELSE IF Len(s) = 1 THEN encodeChar(s)
  ELSE encodeURIComponent(SubSeq(s, 1, Half(s))) \o encodeURIComponent(From(s, Half(s) + 1))

HexValue(c) ==
  IF c \in DigitSet THEN CharCode(c) - 48
  ELSE IF c \in {"A", "B", "C", "D", "E", "F"} THEN CharCode(c) - 55
  ELSE CharCode(c) - 87

RECURSIVE plusToSpace(_)
plusToSpace(s) ==
  IF Len(s) = 0 THEN ""
  ELSE IF Len(s) = 1 THEN (IF s = "+" THEN " " ELSE s)
  ELSE plusToSpace(SubSeq(s, 1, Half(s))) \o plusToSpace(From(s, Half(s) + 1))

\* The text that followed a "%": two hexadecimal digits are the byte they
\* write, anything else leaves the "%" as it is.
decodeEscape(t) ==
  IF /\ Len(t) >= 2
     /\ \A i \in 1..2 :
          At(t, i) \in DigitSet
                       \cup {"A", "B", "C", "D", "E", "F", "a", "b", "c", "d", "e", "f"}
  THEN CharOfCode(16 * HexValue(At(t, 1)) + HexValue(At(t, 2))) \o From(t, 3)
  ELSE "%" \o t

RECURSIVE decodeEscapes(_, _, _)
decodeEscapes(parts, lo, hi) ==
  IF lo > hi THEN ""
  ELSE IF lo = hi THEN decodeEscape(parts[lo])
  ELSE decodeEscapes(parts, lo, (lo + hi) \div 2)
       \o decodeEscapes(parts, ((lo + hi) \div 2) + 1, hi)

\* Percent-decoding (printable ASCII only; the grave accent, %60, has no
\* character in the model).
percentDecode(s) ==
  LET parts == split(s, "%")
  IN parts[1] \o decodeEscapes(parts, 2, Len(parts))

\* application/x-www-form-urlencoded decoding of one name or value: "+" is a
\* space, then the percent-escapes are decoded.
formDecode(s) == percentDecode(plusToSpace(s))

\* url.searchParams.get(name): the value of the first pair called name in the
\* URL's query, or null (None).
RECURSIVE searchParamsGetIn(_, _, _)
searchParamsGetIn(pairs, k, name) ==
  IF k > Len(pairs) THEN None
  ELSE LET pair == pairs[k]
           e == indexOf(pair, "=")
           n == IF e = 0 THEN pair ELSE SubSeq(pair, 1, e - 1)
           v == IF e = 0 THEN "" ELSE From(pair, e + 1)
       IN IF pair # "" /\ formDecode(n) = name
          THEN Some(formDecode(v))
          ELSE searchParamsGetIn(pairs, k + 1, name)

searchParamsGet(u, name) ==
  IF u.hasQuery THEN searchParamsGetIn(split(u.query, "&"), 1, name) ELSE None

\* JSON values of the model: an object whose members are strings, as the
\* sequence of its <<name, value>> pairs in insertion order.  JSON.parse accepts
\* more (numbers, arrays, nesting, escapes); the headers of the model stay within
\* flat objects of plain strings, and anything else is a SyntaxError (ok = FALSE).
\* An object lists its integer-like names (array indices) first, in ascending
\* order, then the other names in insertion order.
JsonError == [ok |-> FALSE, members |-> <<>>, rest |-> ""]

RECURSIVE skipJsonWhite(_)
skipJsonWhite(s) ==
  IF Len(s) > 0 /\ At(s, 1) \in {" ", "\t", "\r", "\n"} THEN skipJsonWhite(From(s, 2)) ELSE s

\* A string literal at the start of s: [ok, value, rest].  A control character
\* inside the literal is a SyntaxError (and so is a backslash: escapes are
\* left out).
parseJsonString(s) ==
  IF Len(s) = 0 \/ At(s, 1) # "\""
  THEN [ok |-> FALSE, value |-> "", rest |-> ""]
  ELSE LET body == From(s, 2)
           e == indexOf(body, "\"")
       IN IF \/ e = 0
             \/ \E j \in 1..(e - 1) : At(body, j) \in {"\t", "\r", "\n", "\f"} \cup {"\\"}
          THEN [ok |-> FALSE, value |-> "", rest |-> ""]
          ELSE [ok |-> TRUE, value |-> SubSeq(body, 1, e - 1), rest |-> From(body, e + 1)]

\* Whether the digit strings a and b of one length have a before b.
RECURSIVE digitsBefore(_, _)
digitsBefore(a, b) ==
  IF Len(a) = 0 THEN FALSE
  ELSE IF At(a, 1) # At(b, 1) THEN CharCode(At(a, 1)) < CharCode(At(b, 1))
  ELSE digitsBefore(From(a, 2), From(b, 2))

\* Whether the array index a is less than the array index b.
indexBefore(a, b) == Len(a) < Len(b) \/ (Len(a) = Len(b) /\ digitsBefore(a, b))

\* An array index: the canonical decimal text of an integer of 0..4294967294.
isArrayIndex(name) ==
  /\ Len(name) > 0
  /\ \A i \in 1..Len(name) : At(name, i) \in DigitSet
  /\ name = "0" \/ At(name, 1) # "0"
  /\ indexBefore(name, "4294967295")

\* The position a new property takes among the members: an array index goes
\* before the first member that is no array index or a greater one, any other
\* name goes last.
memberPosition(members, name) ==
  IF isArrayIndex(name)
  THEN Least({i \in 1..Len(members) :
                ~isArrayIndex(members[i][1]) \/ indexBefore(name, members[i][1])}
             \cup {Len(members) + 1})
  ELSE Len(members) + 1

\* Setting a property: the value of a name the object has is replaced where it
\* stands; a new name takes its position in the property order.
putMember(members, name, value) ==
  IF \E i \in 1..Len(members) : members[i][1] = name
  THEN [i \in 1..Len(members) |->
          IF members[i][1] = name THEN <<name, value>> ELSE members[i]]
  ELSE SubSeq(members, 1, memberPosition(members, name) - 1)
       \o << <<name, value>> >>
       \o SubSeq(members, memberPosition(members, name), Len(members))

\* The members of an object after its "{" or after a ",": [ok, members, rest].
RECURSIVE parseJsonMembers(_, _)
parseJsonMembers(members, s) ==
  LET k == parseJsonString(skipJsonWhite(s))
      afterKey == skipJsonWhite(k.rest)
      v == parseJsonString(skipJsonWhite(From(afterKey, 2)))
      afterValue == skipJsonWhite(v.rest)
  IN IF ~k.ok \/ Len(afterKey) = 0 \/ At(afterKey, 1) # ":" \/ ~v.ok \/ Len(afterValue) = 0
     THEN JsonError
     ELSE IF At(afterValue, 1) = ","
     THEN parseJsonMembers(putMember(members, k.value, v.value), From(afterValue, 2))
     ELSE IF At(afterValue, 1) = "}"
     THEN [ok |-> TRUE, members |-> putMember(members, k.value, v.value),
           rest |-> From(afterValue, 2)]
     ELSE JsonError

\* JSON.parse: ok = FALSE stands for the SyntaxError it throws.
JSONparse(text) ==
  LET s == skipJsonWhite(text)
  IN IF Len(s) = 0 \/ At(s, 1) # "{" THEN JsonError
     ELSE LET inner == skipJsonWhite(From(s, 2))
              r == IF Len(inner) > 0 /\ At(inner, 1) = "}"
                   THEN [ok |-> TRUE, members |-> <<>>, rest |-> From(inner, 2)]
                   ELSE parseJsonMembers(<<>>, inner)
          IN IF r.ok /\ skipJsonWhite(r.rest) = ""
             THEN [ok |-> TRUE, members |-> r.members, rest |-> ""]
             ELSE JsonError

RECURSIVE stringifyMembers(_)
stringifyMembers(members) ==
  IF Len(members) = 0 THEN ""
  ELSE "\"" \o members[1][1] \o "\":\"" \o members[1][2] \o "\""
       \o (IF Len(members) > 1 THEN "," ELSE "")
       \o stringifyMembers(Tail(members))

\* JSON.stringify of an object of the model.
JSONstringify(members) == "{" \o stringifyMembers(members) \o "}"

(***************************************************************************)
(* The playlist rewriter (src/src/routes/m3u8-proxy.ts, lines 127-283)     *)
(***************************************************************************)

\* base ? new URL(url, base) : new URL(url), null for a TypeError.
safeCreateURL(url, base) ==
  newURL(url, IF base.present /\ base.value # "" THEN base ELSE None)

\* /URI="([^"]+)"/.exec(line): the leftmost place where URI=" is followed by one
\* or more characters other than a quote and then a quote.  [found, at, value]:
\* at is the position of the first character of the captured group.
uriMatches(line) ==
  {i \in 1..(Len(line) - 5) :
     /\ SubSeq(line, i, i + 4) = "URI=\""
     /\ At(line, i + 5) # "\""
     /\ indexOf(From(line, i + 5), "\"") > 0}

regexExec(line) ==
  IF uriMatches(line) = {}
  THEN [found |-> FALSE, at |-> 0, value |-> ""]
  ELSE LET i == Least(uriMatches(line))
           body == From(line, i + 5)
       IN [found |-> TRUE, at |-> i + 5,
           value |-> SubSeq(body, 1, indexOf(body, "\"") - 1)]

\* GetSubstitution for a string pattern (no captures): in the replacement, $$
\* is a "$", $& the matched text and $' the text after the match; any other
\* "$" stands for itself.  ($ with a grave accent, the text before the match,
\* is left out with that character.)
RECURSIVE getSubstitution(_, _, _)
getSubstitution(matched, after, replacement) ==
  LET d == indexOf(replacement, "$")
      c == IF d > 0 /\ d < Len(replacement) THEN At(replacement, d + 1) ELSE ""
  IN IF d = 0 THEN replacement
     ELSE SubSeq(replacement, 1, d - 1)
          \o (IF c = "$" THEN "$"
              ELSE IF c = "&" THEN matched
              ELSE IF c = "'" THEN after
              ELSE "$")
          \o getSubstitution(matched, after,
                             From(replacement, IF c \in {"$", "&", "'"} THEN d + 2 ELSE d + 1))

\* line.replace(pattern, replacement) with a string pattern: the first occurrence
\* of pattern in line is replaced by the substitution of the replacement.
replace(line, pattern, replacement) ==
  LET i == indexOf(line, pattern)
  IN IF i = 0 THEN line
     ELSE SubSeq(line, 1, i - 1)
          \o getSubstitution(pattern, From(line, i + Len(pattern)), replacement)
          \o From(line, i + Len(pattern))

\* The URL object of a reference found in the playlist (lines 144-146, 171-173,
\* 196-198, 235-237, 260-262): a reference that starts with "http" is parsed
\* without a base, any other against the playlist's URL.
resolveReference(ref, validatedUrl) ==
  safeCreateURL(ref, IF startsWith(ref, "http") THEN None ELSE Some(toString(validatedUrl)))

\* `${baseProxyUrl}/<route>?url=${encodeURIComponent(full)}&headers=${...}`
proxyUrl(baseProxyUrl, route, full, customHeaders) ==
  baseProxyUrl \o "/" \o route \o "?url=" \o encodeURIComponent(full)
  \o "&headers=" \o encodeURIComponent(JSONstringify(customHeaders))

\* Routes mixed up: a key sent to the playlist route, a variant to the
\* segment route.
KeyRouteAsPlaylist == "m3u8-proxy"
VariantRouteAsSegment == "ts-proxy"

\* The routes the rewritten URLs point to (lines 153, 180, 205, 244, 269).
KeyRoute == "ts-proxy"
MediaRoute == "m3u8-proxy"
VariantRoute == "m3u8-proxy"
SegmentRoute == "ts-proxy"

\* The try block of a tag line whose URI is uri: obj is the URL object, and a
\* null obj throws, which keeps the line.
replaceUri(line, uri, obj, route, baseProxyUrl, customHeaders) ==
  IF ~obj.ok THEN line
  ELSE replace(line, uri, proxyUrl(baseProxyUrl, route, toString(obj), customHeaders))

rewriteMatch(line, match, route, validatedUrl, baseProxyUrl, customHeaders) ==
  IF ~match.found THEN line
  ELSE replaceUri(line, match.value, resolveReference(match.value, validatedUrl),
                  route, baseProxyUrl, customHeaders)

\* A tag line that carries a URI attribute (#EXT-X-KEY, #EXT-X-MEDIA).
rewriteUriLine(line, route, validatedUrl, baseProxyUrl, customHeaders) ==
  rewriteMatch(line, regexExec(line), route, validatedUrl, baseProxyUrl, customHeaders)

\* A URL line that is dropped, not kept, when its URL cannot be created.
emitUrlOrNothing(line, obj, route, baseProxyUrl, customHeaders) ==
  IF ~obj.ok THEN ""
  ELSE proxyUrl(baseProxyUrl, route, toString(obj), customHeaders)

\* The try block of a URL line: a null obj throws, which keeps the line.
emitUrl(line, obj, route, baseProxyUrl, customHeaders) ==
  IF ~obj.ok THEN line
  ELSE proxyUrl(baseProxyUrl, route, toString(obj), customHeaders)

\* A line that is a URL reference (a variant or a segment).
rewriteUrlLine(line, route, validatedUrl, baseProxyUrl, customHeaders) ==
  emitUrl(line, resolveReference(line, validatedUrl), route, baseProxyUrl, customHeaders)

\* One iteration of the master playlist loop (lines 132-214).
masterLine(line, validatedUrl, baseProxyUrl, customHeaders) ==
  IF startsWith(line, "#")
  THEN (IF startsWith(line, "#EXT-X-KEY:") \/ startsWith(line, "#EXT-X-MEDIA:")
        THEN rewriteUriLine(line,
                            IF startsWith(line, "#EXT-X-KEY:") THEN KeyRoute ELSE MediaRoute,
                            validatedUrl, baseProxyUrl, customHeaders)
        ELSE line)
  ELSE IF trim(line) # ""
  THEN rewriteUrlLine(line, VariantRoute, validatedUrl, baseProxyUrl, customHeaders)
  ELSE line

\* One iteration of the media playlist loop (lines 224-278).
mediaLine(line, validatedUrl, baseProxyUrl, customHeaders) ==
  IF startsWith(line, "#")
  THEN (IF startsWith(line, "#EXT-X-KEY:")
        THEN rewriteUriLine(line, KeyRoute, validatedUrl, baseProxyUrl, customHeaders)
        ELSE line)
  ELSE IF trim(line) # "" /\ ~startsWith(line, "#")
  THEN rewriteUrlLine(line, SegmentRoute, validatedUrl, baseProxyUrl, customHeaders)
  ELSE line

isMaster(m3u8Content) == includes(m3u8Content, "RESOLUTION=")

\* A rewriter that leaves the blank lines out of its output.
rewritePlaylistSkippingBlank(m3u8Content, validatedUrl, baseProxyUrl, customHeaders) ==
  LET lines == SelectSeq(split(m3u8Content, "\n"), LAMBDA l : trim(l) # "")
      newLines == [i \in 1..Len(lines) |->
                     IF isMaster(m3u8Content)
                     THEN masterLine(lines[i], validatedUrl, baseProxyUrl, customHeaders)
                     ELSE mediaLine(lines[i], validatedUrl, baseProxyUrl, customHeaders)]
  IN join(newLines, "\n")

\* The body of the playlist response: split, rewrite line by line, join.
rewritePlaylist(m3u8Content, validatedUrl, baseProxyUrl, customHeaders) ==
  LET lines == split(m3u8Content, "\n")
      newLines == [i \in 1..Len(lines) |->
                     IF isMaster(m3u8Content)
                     THEN masterLine(lines[i], validatedUrl, baseProxyUrl, customHeaders)
                     ELSE mediaLine(lines[i], validatedUrl, baseProxyUrl, customHeaders)]
  IN join(newLines, "\n")

(***************************************************************************)
(* Requests, responses and the origin                                      *)
(***************************************************************************)

\* The most lines a playlist body of the model has.
MaxLines == 2

\* The lines playlists are made of.
Lines ==
  {"",
   " ",
   "#EXT-X-STREAM-INF:RESOLUTION=1920x1080",
   "#EXTINF:10,",
   "high/index.m3u8",
   "../b/seg 2.ts?x=1&y=a+b",
   "https://CDN.example.com/a/seg001.ts",
   "http_seg/001.ts",
   "//",
   "#EXT-X-KEY:METHOD=AES-128,URI=\"key.bin\"",
   "#EXT-X-KEY:METHOD=AES-128,URI=\"KEY\"",
   "#EXT-X-KEY:METHOD=AES-128,URI=\"#\"",
   "#EXT-X-KEY:METHOD=AES-128,URI=\"//\"",
   "#EXT-X-KEY:METHOD=NONE",
   "#EXT-X-MEDIA:TYPE=AUDIO,GROUP-ID=\"audio\",URI=\"audio/index.m3u8\"",
   "#EXT-X-MEDIA:TYPE=AUDIO,URI=\"//\""}

Playlists == {join(ls, "\n") : ls \in UNION {[1..n -> Lines] : n \in 0..MaxLines}}

Segments == {"SEGMENT-BYTES"}

\* The most 'data' events a segment body arrives in.
MaxChunks == 2

\* The origins the proxy is addressed on.
ProxyOrigins == {"https://proxy.local", "http://proxy.local:8787", "https://a$&b.local"}

\* The url and headers query parameters of the requests (None: not given).
TargetParams ==
  {None, Some(""), Some("seg.ts"),
   Some("https://cdn.example.com/a/master.m3u8")}

HeaderParams ==
  {None,
   Some("{\"Referer\":\"https://site.example/\",\"accept\":\" text/plain\",\"1\":\"x\"}"),
   Some("{\"my header\":\"x\"}"),
   Some("not-json")}

\* The origin, url and headers of the requests: every url and headers on the
\* first origin, and one request on each of the other origins.
RequestParams ==
  ({"https://proxy.local"} \X TargetParams \X HeaderParams)
  \cup {<<"http://proxy.local:8787",
          Some("http://xn--bcher-kva.xn--a-.example/a/b/index.m3u8?tok=1"),
          Some("{\"Set-Cookie\":\"a\",\"set-cookie\":\"b\",\"Cookie\":\"c\",\"cookie\":\"d\",\"__proto__\":\"x\"}")>>,
        <<"https://a$&b.local", Some("https://cdn.example.com/a/master.m3u8"), None>>}

Methods == {"GET", "OPTIONS"}

routePath(variant) == IF variant = "m3u8" THEN "/m3u8-proxy" ELSE "/ts-proxy"

\* The URL a client requests: the parameters percent-encoded in the query.
requestUrl(origin, variant, target, headers) ==
  LET params ==
        (IF target.present THEN <<"url=" \o encodeURIComponent(target.value)>> ELSE <<>>)
        \o (IF headers.present
            THEN <<"headers=" \o encodeURIComponent(headers.value)>>
            ELSE <<>>)
  IN origin \o routePath(variant)
     \o (IF Len(params) = 0 THEN "" ELSE "?" \o join(params, "&"))

\* The requests to the four handlers: the playlist endpoint ("m3u8"), and the
\* segment endpoint as src/src/routes/ts-proxy.ts ("ts"), src/unnamed/part_000
\* ("ts-validated") and src/unnamed/part_001 ("ts-node").
Requests ==
  {[variant |-> v, method |-> m, url |-> requestUrl(p[1], v, p[2], p[3])] :
     v \in {"m3u8", "ts", "ts-validated", "ts-node"}, m \in Methods,
     p \in RequestParams}

\* response.ok
responseOk(status) == status >= 200 /\ status <= 299

\* What the origin answers.  First the head of its response, the status and
\* the reason phrase it sent (response.status, response.statusText; the phrase
\* is the origin's choice and is empty over HTTP/2), or a network error with
\* its message; then the body, or a failure while the body is read
\* (response.text() or response.arrayBuffer() rejects).
\* read: "no" (the body has not been read), "yes" or "failed".
originHeads ==
  {[error |-> FALSE, status |-> sl[1], statusText |-> sl[2], read |-> "no",
    body |-> IF responseOk(sl[1]) THEN "" ELSE "<html>origin error</html>",
    message |-> ""] :
     sl \in {<<200, "OK">>, <<304, "Not Modified">>, <<404, "Not Found">>, <<404, "">>,
             <<500, "Server Error">>}}
  \cup {[error |-> TRUE, status |-> 0, statusText |-> "", read |-> "no", body |-> "",
          message |-> m] : m \in {"fetch failed", ""}}

originBodies(bodies) ==
  {[read |-> "yes", body |-> b, message |-> ""] : b \in bodies}
  \cup {[read |-> "failed", body |-> "", message |-> m] : m \in {"terminated"}}

NoFetch == [started |-> FALSE, url |-> "", headers |-> <<>>]
NoAnswer ==
  [error |-> FALSE, status |-> 0, statusText |-> "", read |-> "no", body |-> "",
   message |-> ""]
NoResponse == [sent |-> FALSE, status |-> 0, headers |-> {}, body |-> ""]

\* new Response(body, {status, headers}); a string body without a Content-Type
\* gets text/plain;charset=UTF-8.
Response(body, status, headers) ==
  [sent |-> TRUE, status |-> status,
   headers |-> IF \E h \in headers : h[1] = "Content-Type"
               THEN headers
               ELSE headers \cup {<<"Content-Type", "text/plain;charset=UTF-8">>},
   body |-> body]

PreflightHeaders ==
  {<<"Access-Control-Allow-Origin", "*">>,
   <<"Access-Control-Allow-Methods", "GET, OPTIONS">>,
   <<"Access-Control-Allow-Headers", "*">>,
   <<"Access-Control-Max-Age", "86400">>}

preflightResponse ==
  [sent |-> TRUE, status |-> 200, headers |-> PreflightHeaders, body |-> ""]

AllowOrigin == {<<"Access-Control-Allow-Origin", "*">>}

CorsHeaders ==
  {<<"Access-Control-Allow-Origin", "*">>,
   <<"Access-Control-Allow-Headers", "*">>,
   <<"Access-Control-Allow-Methods", "*">>}

PlaylistHeaders ==
  CorsHeaders
  \cup {<<"Content-Type", "application/vnd.apple.mpegurl">>,
        <<"Cache-Control", "no-cache, no-store, must-revalidate">>}

SegmentHeaders ==
  CorsHeaders
  \cup {<<"Content-Type", "video/mp2t">>, <<"Cache-Control", "public, max-age=3600">>}

DefaultRequestHeaders ==
  << <<"User-Agent",
       "Mozilla/5.0 (Windows NT 10.0; Win64; x64) AppleWebKit/537.36 (KHTML, like Gecko) Chrome/80.0.3987.132 Safari/537.36">>,
     <<"Accept", "*/*">>,
     <<"Accept-Language", "en-US,en;q=0.9">> >>

\* { ...defaults, ...customHeaders }
RECURSIVE spread(_, _)
spread(object, members) ==
  IF Len(members) = 0 THEN object
  ELSE spread(putMember(object, members[1][1], members[1][2]), Tail(members))

\* The members of the object whose name is no header name: no HTTP token (the
\* grave accent left out).
invalidNames(object) ==
  {i \in 1..Len(object) :
     \/ Len(object[i][1]) = 0
     \/ \E k \in 1..Len(object[i][1]) :
          At(object[i][1], k) \notin
            AlphaSet \cup DigitSet
              \cup {"!", "#", "$", "%", "&", "'", "*", "+", "-", ".", "^", "_", "|", "~"}}

\* A header value without its leading and trailing HTTP whitespace (space,
\* tab, CR, LF).
RECURSIVE httpTrimStart(_)
httpTrimStart(s) ==
  IF Len(s) > 0 /\ At(s, 1) \in {" ", "\t", "\r", "\n"} THEN httpTrimStart(From(s, 2)) ELSE s

RECURSIVE httpTrimEnd(_)
httpTrimEnd(s) ==
  IF Len(s) > 0 /\ At(s, Len(s)) \in {" ", "\t", "\r", "\n"}
  THEN httpTrimEnd(SubSeq(s, 1, Len(s) - 1))
  ELSE s

\* Whether string a sorts before string b (by code unit).
RECURSIVE stringBefore(_, _)
stringBefore(a, b) ==
  IF Len(b) = 0 THEN FALSE
  ELSE IF Len(a) = 0 THEN TRUE
  ELSE IF At(a, 1) # At(b, 1) THEN CharCode(At(a, 1)) < CharCode(At(b, 1))
  ELSE stringBefore(From(a, 2), From(b, 2))

\* Headers.prototype.append on the sorted, combined list the Headers object
\* iterates as: names in lower case, the values of one name joined by ", "
\* ("; " for cookie); set-cookie is never combined, each of its values is an
\* entry of its own, in the order of the appends.
headersAppend(list, name, value) ==
  IF name # "set-cookie" /\ \E i \in 1..Len(list) : list[i][1] = name
  THEN [i \in 1..Len(list) |->
          IF list[i][1] = name
          THEN <<name, list[i][2] \o (IF name = "cookie" THEN "; " ELSE ", ") \o value>>
          ELSE list[i]]
  ELSE LET at == Least({i \in 1..Len(list) : stringBefore(name, list[i][1])}
                       \cup {Len(list) + 1})
       IN SubSeq(list, 1, at - 1) \o << <<name, value>> >> \o SubSeq(list, at, Len(list))

RECURSIVE headersFill(_, _)
headersFill(list, object) ==
  IF Len(object) = 0 THEN list
  ELSE headersFill(headersAppend(list, toLowerCase(object[1][1]),
                                 httpTrimEnd(httpTrimStart(object[1][2]))),
                   Tail(object))

\* new Headers(object): [ok, list, message]; ok = FALSE stands for the
\* TypeError thrown on the first name that is no header name.  (A value is
\* never invalid here: no string of the model's JSON holds NUL, CR or LF.)
\* The object is first converted to a record by assigning each member to a
\* plain object, which loses a member named __proto__ (the assignment of a
\* string to __proto__ does nothing).
newHeaders(object) ==
  LET record == SelectSeq(object, LAMBDA member : member[1] # "__proto__")
  IN IF invalidNames(record) # {}
     THEN [ok |-> FALSE, list |-> <<>>,
           message |-> "Headers.append: \"" \o record[Least(invalidNames(record))][1]
                       \o "\" is an invalid header name."]
     ELSE [ok |-> TRUE, list |-> headersFill(<<>>, record), message |-> ""]

\* new Headers({ ...defaults, ...customHeaders })
requestHeaders(customHeaders) == newHeaders(spread(DefaultRequestHeaders, customHeaders))

\* The headers of http.request(options) (src/unnamed/part_001): setHeader on
\* each member of the object; a later name replaces, where it stands, an
\* earlier one that differs from it in case only.
RECURSIVE nodeSetHeaders(_, _)
nodeSetHeaders(list, object) ==
  IF Len(object) = 0 THEN list
  ELSE nodeSetHeaders(
         IF \E i \in 1..Len(list) : toLowerCase(list[i][1]) = toLowerCase(object[1][1])
         THEN [i \in 1..Len(list) |->
                 IF toLowerCase(list[i][1]) = toLowerCase(object[1][1])
                 THEN object[1] ELSE list[i]]
         ELSE Append(list, object[1]),
         Tail(object))

\* [ok, list, message]; ok = FALSE stands for the TypeError
\* ERR_INVALID_HTTP_TOKEN thrown on the first name that is no header name.
nodeRequestHeaders(headers) ==
  LET object == spread(DefaultRequestHeaders, headers)
  IN IF invalidNames(object) # {}
     THEN [ok |-> FALSE, list |-> <<>>,
           message |-> "Header name must be a valid HTTP token [\""
                       \o object[Least(invalidNames(object))][1] \o "\"]"]
     ELSE [ok |-> TRUE, list |-> nodeSetHeaders(<<>>, object), message |-> ""]

\* customHeaders = headersParam ? JSON.parse(headersParam) : {}; ok = FALSE
\* when JSON.parse throws.
customHeadersOf(headersParam) ==
  IF headersParam.present /\ headersParam.value # ""
  THEN JSONparse(headersParam.value)
  ELSE [ok |-> TRUE, members |-> <<>>, rest |-> ""]

\* !targetUrl
missing(targetUrl) == ~targetUrl.present \/ targetUrl.value = ""

\* A message without the origin's status.
upstreamErrorMessageWithoutStatus(prefix, answer) ==
  IF answer.error THEN answer.message ELSE prefix \o answer.statusText

\* The message of the error a handler's inner try block throws on the
\* origin's answer.
upstreamErrorMessage(prefix, answer) ==
  IF answer.error THEN answer.message
  ELSE prefix \o ToString(answer.status) \o " " \o answer.statusText

\* error.message || fallback
orElse(message, fallback) == IF message = "" THEN fallback ELSE message

(***************************************************************************)
(* The handlers.  Each runs in three steps, one per resumption of the      *)
(* async function: from the request to the outbound fetch (or to a         *)
(* response, when it answers without fetching); from the head of the       *)
(* origin's answer to the read of its body (or to a response, when the     *)
(* fetch failed or the status is not 2xx); and from the body to the        *)
(* response (the handler of src/unnamed/part_001 takes the body in one    *)
(* step per 'data' event and a last one for 'end' or 'error').  The        *)
(* handlers keep no state outside their locals, so the                     *)
(* steps of another request in between change nothing of this one: one     *)
(* request is followed.  The operators of the first step take the          *)
(* handler's local variables as parameters, in the order the code binds    *)
(* them.                                                                   *)
(***************************************************************************)

VARIABLES
  pc,        \* "idle", "fetching" (the handler awaits the origin's answer),
             \* "reading" (it awaits the body) or "responded"
  req,       \* the request being handled
  frame,     \* the locals the handler holds across the awaits
  fetch,     \* the outbound request to the origin, once started
  answer,    \* what the origin answered
  resp       \* the response to the client

vars == <<pc, req, frame, fetch, answer, resp>>

NoFrame ==
  [url |-> Failure, customHeaders |-> <<>>, validatedUrl |-> Failure, chunks |-> <<>>]

Respond(r, response) ==
  /\ pc' = "responded"
  /\ req' = r
  /\ frame' = NoFrame
  /\ fetch' = NoFetch
  /\ answer' = NoAnswer
  /\ resp' = response

StartFetch(r, f, url, headers) ==
  /\ pc' = "fetching"
  /\ req' = r
  /\ frame' = f
  /\ fetch' = [started |-> TRUE, url |-> url, headers |-> headers]
  /\ answer' = NoAnswer
  /\ resp' = NoResponse

\* The head of the answer arrived: the handler goes on to read the body.
ReadBody(a) ==
  /\ pc' = "reading"
  /\ answer' = a
  /\ UNCHANGED <<req, frame, fetch, resp>>

Finish(a, response) ==
  /\ pc' = "responded"
  /\ answer' = a
  /\ resp' = response
  /\ UNCHANGED <<req, frame, fetch>>

\* The answer with its body read (or the read failed).
withBody(a, b) == [a EXCEPT !.read = b.read, !.body = b.body, !.message = b.message]

\* ---- src/src/routes/m3u8-proxy.ts ----

\* Lines 91-106: the request headers are built and the fetch is started; the
\* TypeError of new Headers is caught at line 284.
m3u8Send(r, f, headers) ==
  IF ~headers.ok
  THEN Respond(r, Response(orElse(headers.message, "Error proxying M3U8 file"),
                           500, AllowOrigin))
  ELSE StartFetch(r, f, toString(f.validatedUrl), headers.list)

\* Lines 83-89: the target URL is validated.
m3u8Fetch(r, url, targetUrl, customHeaders, validatedUrl) ==
  IF ~validatedUrl.ok
  THEN Respond(r, Response("Invalid target URL: " \o targetUrl, 400, AllowOrigin))
  ELSE m3u8Send(r, [url |-> url, customHeaders |-> customHeaders,
                    validatedUrl |-> validatedUrl, chunks |-> <<>>],
                requestHeaders(customHeaders))

\* Lines 68-80.
m3u8Validate(r, url, targetUrl, customHeaders) ==
  IF missing(targetUrl) THEN Respond(r, Response("URL parameter is required", 400, {}))
  ELSE IF ~customHeaders.ok THEN Respond(r, Response("Invalid headers format", 400, {}))
  ELSE m3u8Fetch(r, url, targetUrl.value, customHeaders.members,
                 safeCreateURL(targetUrl.value, None))

\* Lines 51-66.
m3u8Handle(r, url) ==
  IF r.method = "OPTIONS" THEN Respond(r, preflightResponse)
  ELSE m3u8Validate(r, url, searchParamsGet(url, "url"),
                    customHeadersOf(searchParamsGet(url, "headers")))

M3u8Request(r) ==
  /\ pc = "idle"
  /\ r.variant = "m3u8"
  /\ m3u8Handle(r, newURL(r.url, None))

\* Lines 115-117.
baseProxyUrlOf(url) == protocol(url) \o "//" \o hostname(url)

\* Lines 104-110 and 284-291: await fetch(...) settles.
M3u8Answer(a) ==
  /\ pc = "fetching"
  /\ req.variant = "m3u8"
  /\ IF a.error \/ ~responseOk(a.status)
     THEN Finish(a, Response(orElse(upstreamErrorMessage("Failed to fetch M3U8: ", a),
                                    "Error proxying M3U8 file"),
                             500, AllowOrigin))
     ELSE ReadBody(a)

\* Lines 112-291: the response once await response.text() settles.
m3u8Late(f, a) ==
  IF a.read = "failed"
  THEN Response(orElse(a.message, "Error proxying M3U8 file"), 500, AllowOrigin)
  ELSE Response(rewritePlaylist(a.body, f.validatedUrl, baseProxyUrlOf(f.url),
                                f.customHeaders),
                200, PlaylistHeaders)

M3u8Body(b) ==
  /\ pc = "reading"
  /\ req.variant = "m3u8"
  /\ Finish(withBody(answer, b), m3u8Late(frame, withBody(answer, b)))

\* ---- src/src/routes/ts-proxy.ts ----
\* The target URL is not validated: fetch itself throws a TypeError on a URL
\* it cannot parse, before any request is made, and the catch block answers 500.

\* Lines 35-47 and 66-73.
tsFetch(r, url, targetUrl, customHeaders, parsed, headers) ==
  IF ~headers.ok
  THEN Respond(r, Response(orElse(headers.message, "Error proxying TS file"),
                           500, AllowOrigin))
  ELSE IF ~parsed.ok
  THEN Respond(r, Response(orElse("Failed to parse URL from " \o targetUrl,
                                  "Error proxying TS file"),
                           500, AllowOrigin))
  ELSE StartFetch(r, [url |-> url, customHeaders |-> customHeaders,
                      validatedUrl |-> parsed, chunks |-> <<>>],
                  targetUrl, headers.list)

\* Lines 24-33.
tsValidate(r, url, targetUrl, customHeaders) ==
  IF missing(targetUrl) THEN Respond(r, Response("URL parameter is required", 400, {}))
  ELSE IF ~customHeaders.ok THEN Respond(r, Response("Invalid headers format", 400, {}))
  ELSE tsFetch(r, url, targetUrl.value, customHeaders.members,
               newURL(targetUrl.value, None), requestHeaders(customHeaders.members))

\* Lines 8-22.
tsHandle(r, url) ==
  IF r.method = "OPTIONS" THEN Respond(r, preflightResponse)
  ELSE tsValidate(r, url, searchParamsGet(url, "url"),
                  customHeadersOf(searchParamsGet(url, "headers")))

TsRequest(r) ==
  /\ pc = "idle"
  /\ r.variant = "ts"
  /\ tsHandle(r, newURL(r.url, None))

\* Lines 44-51 and 66-73: await fetch(...) settles.
TsAnswer(a) ==
  /\ pc = "fetching"
  /\ req.variant = "ts"
  /\ IF a.error \/ ~responseOk(a.status)
     THEN Finish(a, Response(orElse(upstreamErrorMessage("Failed to fetch TS file: ", a),
                                    "Error proxying TS file"),
                             500, AllowOrigin))
     ELSE ReadBody(a)

\* Lines 54-73: the response once await response.arrayBuffer() settles.
tsLate(a) ==
  IF a.read = "failed"
  THEN Response(orElse(a.message, "Error proxying TS file"), 500, AllowOrigin)
  ELSE Response(a.body, 200, SegmentHeaders)

TsBody(b) ==
  /\ pc = "reading"
  /\ req.variant = "ts"
  /\ Finish(withBody(answer, b), tsLate(withBody(answer, b)))

\* ---- src/unnamed/part_000: the segment handler that validates its target ----

\* Lines 62-77 and 96-103.
tsValidatedSend(r, f, headers) ==
  IF ~headers.ok
  THEN Respond(r, Response(orElse(headers.message, "Error proxying TS file"),
                           500, AllowOrigin))
  ELSE StartFetch(r, f, toString(f.validatedUrl), headers.list)

\* Lines 53-60.
tsValidatedFetch(r, url, customHeaders, validatedUrl) ==
  IF ~validatedUrl.ok
  THEN Respond(r, Response("Invalid target URL", 400, AllowOrigin))
  ELSE tsValidatedSend(r, [url |-> url, customHeaders |-> customHeaders,
                           validatedUrl |-> validatedUrl, chunks |-> <<>>],
                       requestHeaders(customHeaders))

\* Lines 35-50.
tsValidatedValidate(r, url, targetUrl, customHeaders) ==
  IF missing(targetUrl)
  THEN Respond(r, Response("URL parameter is required", 400, AllowOrigin))
  ELSE IF ~customHeaders.ok
  THEN Respond(r, Response("Invalid headers format", 400, AllowOrigin))
  ELSE tsValidatedFetch(r, url, customHeaders.members,
                        safeCreateURL(targetUrl.value, None))

\* Lines 18-33.
tsValidatedHandle(r, url) ==
  IF r.method = "OPTIONS" THEN Respond(r, preflightResponse)
  ELSE tsValidatedValidate(r, url, searchParamsGet(url, "url"),
                           customHeadersOf(searchParamsGet(url, "headers")))

TsValidatedRequest(r) ==
  /\ pc = "idle"
  /\ r.variant = "ts-validated"
  /\ tsValidatedHandle(r, newURL(r.url, None))

\* Lines 74-81 and 96-103: await fetch(...) settles.
TsValidatedAnswer(a) ==
  /\ pc = "fetching"
  /\ req.variant = "ts-validated"
  /\ IF a.error \/ ~responseOk(a.status)
     THEN Finish(a, Response(orElse(upstreamErrorMessage("Failed to fetch TS file: ", a),
                                    "Error proxying TS file"),
                             500, AllowOrigin))
     ELSE ReadBody(a)

\* Lines 84-103: the response once await response.arrayBuffer() settles.
tsValidatedLate(a) ==
  IF a.read = "failed"
  THEN Response(orElse(a.message, "Error proxying TS file"), 500, AllowOrigin)
  ELSE Response(a.body, 200, SegmentHeaders)

TsValidatedBody(b) ==
  /\ pc = "reading"
  /\ req.variant = "ts-validated"
  /\ Finish(withBody(answer, b), tsValidatedLate(withBody(answer, b)))

\* ---- src/unnamed/part_001: the segment handler on h3 and node:http(s) ----

\* sendError(event, createError({statusCode, statusMessage})) answers with that
\* status and carries statusMessage (the body below); the headers set on the
\* event before the error stay on the response, the Content-Type becoming JSON.
sendError(statusCode, statusMessage, eventHeaders) ==
  [sent |-> TRUE, status |-> statusCode,
   headers |-> {h \in eventHeaders : h[1] # "Content-Type"}
               \cup {<<"Content-Type", "application/json">>},
   body |-> statusMessage]

\* handleCors(event, {}) on a preflight request.
handleCors ==
  [sent |-> TRUE, status |-> 204,
   headers |-> {<<"Access-Control-Allow-Origin", "*">>,
                <<"Access-Control-Allow-Methods", "*">>},
   body |-> ""]

\* error.response?.status || 500 of an Error that has no response.
NodeErrorStatus == 500

\* Lines 42-74 and 103-108: new URL(url) throws inside the try block, before the
\* response headers are set; http.request throws on a header name after it.
tsNodeFetch(r, requestUrlParsed, url, headers, parsed, sent) ==
  IF ~parsed.ok
  THEN Respond(r, sendError(NodeErrorStatus,
                            orElse("Invalid URL", "Error proxying TS file"), {}))
  ELSE IF ~sent.ok
  THEN Respond(r, sendError(NodeErrorStatus,
                            orElse(sent.message, "Error proxying TS file"),
                            SegmentHeaders))
  ELSE StartFetch(r, [url |-> requestUrlParsed, customHeaders |-> headers,
                      validatedUrl |-> parsed, chunks |-> <<>>],
                  url, sent.list)

\* Lines 21-37.
tsNodeValidate(r, requestUrlParsed, url, headers) ==
  IF missing(url) THEN Respond(r, sendError(400, "URL parameter is required", {}))
  ELSE IF ~headers.ok THEN Respond(r, sendError(400, "Invalid headers format", {}))
  ELSE tsNodeFetch(r, requestUrlParsed, url.value, headers.members,
                   newURL(url.value, None), nodeRequestHeaders(headers.members))

\* Lines 16-19: getQuery(event) reads the query of the request URL.
tsNodeHandle(r, requestUrlParsed) ==
  IF r.method = "OPTIONS" THEN Respond(r, handleCors)
  ELSE tsNodeValidate(r, requestUrlParsed, searchParamsGet(requestUrlParsed, "url"),
                      customHeadersOf(searchParamsGet(requestUrlParsed, "headers")))

TsNodeRequest(r) ==
  /\ pc = "idle"
  /\ r.variant = "ts-node"
  /\ tsNodeHandle(r, newURL(r.url, None))

\* Lines 74-78, 96-99 and 103-108: the response callback or the 'error' event of
\* the request; the headers of lines 47-53 are already set on the event.
TsNodeAnswer(a) ==
  /\ pc = "fetching"
  /\ req.variant = "ts-node"
  /\ IF a.error \/ ~responseOk(a.status)
     THEN Finish(a, sendError(NodeErrorStatus,
                              orElse(upstreamErrorMessage("HTTP Error: ", a),
                                     "Error proxying TS file"),
                              SegmentHeaders))
     ELSE ReadBody(a)

\* Lines 85-93: the 'end' event resolves the promise with the body.  Lines
\* 96-108: an error while the body is read (a socket error, a parse error)
\* makes the request emit 'error', the promise rejects and the catch answers.
tsNodeLate(a) ==
  IF a.read = "failed"
  THEN sendError(NodeErrorStatus, orElse(a.message, "Error proxying TS file"),
                 SegmentHeaders)
  ELSE [sent |-> TRUE, status |-> 200, headers |-> SegmentHeaders, body |-> a.body]

\* Lines 85-87: a 'data' event pushes one chunk of the body to chunks.
TsNodeData(chunk) ==
  /\ pc = "reading"
  /\ req.variant = "ts-node"
  /\ Len(frame.chunks) < MaxChunks
  /\ frame' = [frame EXCEPT !.chunks = Append(@, chunk)]
  /\ UNCHANGED <<pc, req, fetch, answer, resp>>

\* Lines 89-93 and 96-108: the 'end' event (b is the body Buffer.concat makes
\* of chunks) or the 'error' event of the request.
TsNodeBody(b) ==
  /\ pc = "reading"
  /\ req.variant = "ts-node"
  /\ Finish(withBody(answer, b), tsNodeLate(withBody(answer, b)))

Init ==
  /\ pc = "idle"
  /\ req = ([variant |-> "", method |-> "", url |-> ""])
  /\ frame = NoFrame
  /\ fetch = NoFetch
  /\ answer = NoAnswer
  /\ resp = NoResponse

Next ==
  \/ \E r \in Requests : M3u8Request(r)
  \/ \E a \in originHeads : M3u8Answer(a)
  \/ \E b \in originBodies(Playlists) : M3u8Body(b)
  \/ \E r \in Requests : TsRequest(r)
  \/ \E a \in originHeads : TsAnswer(a)
  \/ \E b \in originBodies(Segments) : TsBody(b)
  \/ \E r \in Requests : TsValidatedRequest(r)
  \/ \E a \in originHeads : TsValidatedAnswer(a)
  \/ \E b \in originBodies(Segments) : TsValidatedBody(b)
  \/ \E r \in Requests : TsNodeRequest(r)
  \/ \E a \in originHeads : TsNodeAnswer(a)
  \/ \E chunk \in {"SEGMENT-", "BYTES"} : TsNodeData(chunk)
  \/ \E b \in originBodies({join(frame.chunks, "")}) : TsNodeBody(b)

Spec == Init /\ [][Next]_vars

(***************************************************************************)
(* Properties                                                              *)
(***************************************************************************)

\* The playlist endpoint answered with a rewritten playlist.
Rewritten ==
  /\ pc = "responded"
  /\ req.variant = "m3u8"
  /\ fetch.started
  /\ resp.status = 200

inLines == split(answer.body, "\n")
outLines == split(resp.body, "\n")

\* The proxy base the handler prefixes, and the prefix of a rewritten URL.
proxyBase == baseProxyUrlOf(frame.url)
proxyPrefix(route) == proxyBase \o "/" \o route \o "?url="

isComment(line) == startsWith(line, "#")
isBlank(line) == trim(line) = ""
isUrlLine(line) == ~isComment(line) /\ ~isBlank(line)

\* A tag line the handler looks for a URI in, given the kind of the playlist.
isUriTag(line) ==
  \/ startsWith(line, "#EXT-X-KEY:")
  \/ isMaster(answer.body) /\ startsWith(line, "#EXT-X-MEDIA:")

\* C1: the rewritten body has as many lines as the origin's body, every blank
\* (empty or whitespace-only) line is unchanged at its index, and so is every
\* tag line that carries no URI to rewrite (the order is kept).
C1_LinesPreserved ==
  Rewritten =>
    /\ Len(outLines) = Len(inLines)
    /\ \A i \in 1..Len(inLines) :
         (i <= Len(outLines) /\ (isBlank(inLines[i]) \/ (isComment(inLines[i]) /\ ~isUriTag(inLines[i]))))
           => outLines[i] = inLines[i]

C1_Witness ==
  /\ Rewritten
  /\ Len(inLines) > 1
  /\ \E i \in 1..Len(inLines) : isBlank(inLines[i]) /\ inLines[i] # ""
  /\ \E i \in 1..Len(inLines) : outLines[i] # inLines[i]

\* The route of the URL lines of the playlist the origin answered with.
urlRoute == IF isMaster(answer.body) THEN "m3u8-proxy" ELSE "ts-proxy"

\* C2 as stated: in the output every non-comment non-blank line starts with
\* <proxyBase>/m3u8-proxy?url= in a master playlist and with
\* <proxyBase>/ts-proxy?url= in a media playlist.
C2_EveryUrlLineProxied ==
  Rewritten =>
    \A i \in 1..Len(outLines) :
      isUrlLine(outLines[i]) => startsWith(outLines[i], proxyPrefix(urlRoute))

\* C2 amended: for every non-comment non-blank line of the input, the output
\* line of the same index starts with the proxy prefix of the playlist's kind
\* when the handler could create a URL object for the line, and is the input
\* line, passed through unchanged, when it could not.
C2_UrlLineProxiedOrKept ==
  Rewritten =>
    \A i \in 1..Len(inLines) :
      isUrlLine(inLines[i])
        => IF resolveReference(inLines[i], frame.validatedUrl).ok
           THEN startsWith(outLines[i], proxyPrefix(urlRoute))
           ELSE outLines[i] = inLines[i]

C2_Witness ==
  /\ Rewritten
  /\ isMaster(answer.body)
  /\ \E i \in 1..Len(outLines) :
       /\ isUrlLine(inLines[i])
       /\ outLines[i] # inLines[i]
       /\ startsWith(outLines[i], "https://proxy.local/m3u8-proxy?url=")

\* The #EXT-X-KEY lines whose URI the handler extracts and resolves.
keyResolved(line) ==
  /\ startsWith(line, "#EXT-X-KEY:")
  /\ regexExec(line).found
  /\ resolveReference(regexExec(line).value, frame.validatedUrl).ok

\* The url parameter the handler builds for the URI of a key line.
keyTarget(line) ==
  "url=" \o encodeURIComponent(toString(resolveReference(regexExec(line).value,
                                                         frame.validatedUrl)))

\* C3: an #EXT-X-KEY line whose URI is extracted and resolved is rewritten
\* with its key on the /ts-proxy route and not on the /m3u8-proxy route, in
\* master and media playlists.
C3_KeyToTsProxy ==
  Rewritten =>
    \A i \in 1..Len(inLines) :
      keyResolved(inLines[i])
        => /\ outLines[i] # inLines[i]
           /\ includes(outLines[i], "/ts-proxy?" \o keyTarget(inLines[i]))
           /\ ~includes(outLines[i], "/m3u8-proxy?" \o keyTarget(inLines[i]))

C3_Witness ==
  /\ Rewritten
  /\ isMaster(answer.body)
  /\ \E i \in 1..Len(inLines) :
       /\ keyResolved(inLines[i])
       /\ outLines[i] # inLines[i]

\* The reference of input line i that the handler rewrites: the line itself, or
\* the URI of a tag line.
referenceOf(line) == IF isComment(line) THEN regexExec(line).value ELSE line

\* The proxy URL that stands in outLine for the reference of inLine: the whole
\* line, or what took the place of the first occurrence of
\* the URI.
insertedUrl(inLine, outLine) ==
  IF isComment(inLine)
  THEN SubSeq(outLine, indexOf(inLine, referenceOf(inLine)),
              indexOf(inLine, referenceOf(inLine)) + Len(outLine) - Len(inLine)
                + Len(referenceOf(inLine)) - 1)
  ELSE outLine

\* C4: for every rewritten line, the url parameter of its proxy URL, read as
\* the next request's handler reads it, is the absolute URL the reference was
\* resolved to, and its headers parameter parses to the headers of this request.
C4_RoundTrip ==
  Rewritten =>
    \A i \in 1..Len(inLines) :
      outLines[i] # inLines[i]
        => LET next == newURL(insertedUrl(inLines[i], outLines[i]), None)
           IN /\ next.ok
              /\ searchParamsGet(next, "url")
                   = Some(toString(resolveReference(referenceOf(inLines[i]),
                                                    frame.validatedUrl)))
              /\ customHeadersOf(searchParamsGet(next, "headers"))
                   = [ok |-> TRUE, members |-> frame.customHeaders, rest |-> ""]

\* The origin answered the playlist request with a 2xx response, and its body
\* was read.
fetchSucceeded ==
  /\ pc = "responded"
  /\ req.variant = "m3u8"
  /\ fetch.started
  /\ ~answer.error
  /\ responseOk(answer.status)
  /\ answer.read = "yes"

\* The handler can extract and resolve the URL of the line / it cannot.
lineResolves(line) ==
  \/ isUrlLine(line) /\ resolveReference(line, frame.validatedUrl).ok
  \/ /\ isUriTag(line)
     /\ regexExec(line).found
     /\ resolveReference(regexExec(line).value, frame.validatedUrl).ok

lineFails(line) == (isUrlLine(line) \/ isUriTag(line)) /\ ~lineResolves(line)

\* C5: after a successful fetch the response is never an error; a line whose
\* URL cannot be extracted or resolved is emitted as in the input, and the
\* other lines are still rewritten.
C5_FailOpen ==
  fetchSucceeded =>
    /\ resp.status = 200
    /\ Len(outLines) = Len(inLines)
    /\ \A i \in 1..Len(inLines) :
         /\ lineFails(inLines[i]) => outLines[i] = inLines[i]
         /\ lineResolves(inLines[i])
              => outLines[i] # inLines[i] /\ includes(outLines[i], "-proxy?url=")

C5_Witness ==
  /\ fetchSucceeded
  /\ \E i \in 1..Len(inLines) : isUrlLine(inLines[i]) /\ lineFails(inLines[i])
  /\ \E i \in 1..Len(inLines) : lineResolves(inLines[i]) /\ outLines[i] # inLines[i]

\* A handler answered a request other than a preflight.
Answered == pc = "responded" /\ req.method = "GET"

\* C6: every response of either endpoint, on the success path and on the 400
\* and 500 paths, carries Access-Control-Allow-Origin: *,
\* Access-Control-Allow-Headers: * and Access-Control-Allow-Methods: *.
C6_CorsOnEveryResponse == Answered => CorsHeaders \subseteq resp.headers

\* The request fails validation: no url, headers that are not JSON, or a url
\* that is no absolute URL.
validationFails(r) ==
  LET url == newURL(r.url, None)
      target == searchParamsGet(url, "url")
  IN \/ missing(target)
     \/ ~customHeadersOf(searchParamsGet(url, "headers")).ok
     \/ ~newURL(target.value, None).ok

namesIssue(body) ==
  \/ body \in {"URL parameter is required", "Invalid headers format"}
  \/ startsWith(body, "Invalid target URL")

\* C7: on both endpoints and in every variant of the segment handler a request
\* that fails validation is answered 400 with a message naming the issue, and
\* no fetch to the origin is started.
C7_ValidationAnswers400 ==
  (Answered /\ validationFails(req)) =>
    /\ resp.status = 400
    /\ namesIssue(resp.body)
    /\ ~fetch.started

\* The origin answered a validated request with a status that is not 2xx.
upstreamRefused ==
  /\ pc = "responded"
  /\ fetch.started
  /\ ~answer.error
  /\ ~responseOk(answer.status)

\* C8: when the origin answers with a status that is not 2xx, every handler
\* responds 500 with a message that contains the origin's status in digits, and
\* returns nothing of the origin's body.
C8_UpstreamStatusIn500 ==
  upstreamRefused =>
    /\ resp.status = 500
    /\ includes(resp.body, ToString(answer.status))
    /\ ~includes(resp.body, answer.body)

C8_Witness ==
  /\ upstreamRefused
  /\ req.variant = "ts-node"
  /\ answer.status = 404
  /\ resp.status = 500

endsWith(s, t) == Len(t) <= Len(s) /\ SubSeq(s, Len(s) - Len(t) + 1, Len(s)) = t

\* C9: when an #EXT-X-KEY or #EXT-X-MEDIA line is rewritten, the characters
\* before the URI value and after it are those of the input line.
C9_OnlyUriValueReplaced ==
  Rewritten =>
    \A i \in 1..Len(inLines) :
      (isUriTag(inLines[i]) /\ outLines[i] # inLines[i])
        => LET match == regexExec(inLines[i])
               before == SubSeq(inLines[i], 1, match.at - 1)
               after == From(inLines[i], match.at + Len(match.value))
           IN /\ startsWith(outLines[i], before)
              /\ endsWith(outLines[i], after)
              /\ Len(outLines[i]) >= Len(before) + Len(after)

\* C10: a URL line that standard URL joining resolves against the playlist's
\* URL (an absolute URL included) becomes a proxy URL, and only a line that does
\* not resolve is left unchanged.
C10_ResolvableBecomesProxy ==
  Rewritten =>
    \A i \in 1..Len(inLines) :
      isUrlLine(inLines[i])
        => IF newURL(inLines[i], Some(toString(frame.validatedUrl))).ok
           THEN startsWith(outLines[i], proxyPrefix(urlRoute))
           ELSE outLines[i] = inLines[i]

\* The origin (scheme, host and port) the request was received on.
requestOrigin ==
  frame.url.scheme \o "://" \o frame.url.host
    \o (IF frame.url.port = "" THEN "" ELSE ":" \o frame.url.port)

\* C11: the proxy base of every rewritten URL is the origin, port included, on
\* which the request was received, so that the rewritten URL reaches the same
\* proxy instance.
C11_ProxyBaseIsRequestOrigin ==
  Rewritten =>
    \A i \in 1..Len(inLines) :
      outLines[i] # inLines[i]
        => startsWith(insertedUrl(inLines[i], outLines[i]), requestOrigin \o "/")

====
